---- MODULE Spec2Model ----
\* Reconciliation engine of the household archive catalog (src/app.js):
\* base snapshot -> manifest-ordered deltas -> local edit overlay.
\*
\* A JS object is a function from its own keys to values, so that an absent
\* optional key (box_history, set, box_history_append, _edited, added, ...) is
\* a key that is not in DOMAIN.  JS null is the value NULL.  A fetch or JSON
\* parse that rejects is the value FAIL.
EXTENDS Integers, Sequences, FiniteSets, TLC

VARIABLES
    baseFile,     \* data/items.base.json as served: FAIL or the parsed document
    indexFile,    \* data/updates_index.json as served: FAIL or the parsed document
    storage,      \* localStorage, key 'catalog_edits': NULL (no key), a stored
                  \* string, or DENIED (every access throws)
    items,        \* this.items
    localEdits,   \* this.localEdits
    pc,           \* position of init()/loadCatalogData()
    k,            \* position of the for-of loop over updatesIndex.deltas
    filteredItems,   \* this.filteredItems: the records it refers to, as their
                     \* positions in this.items
    allBoxes,        \* this.allBoxes
    allCategories,   \* this.allCategories
    allPeople,       \* this.allPeople
    editMode,        \* this.editMode
    dom,             \* what the page shows: #catalogGrid and its cards,
                     \* #noResults, the options of the three filters, #editStatus
    attempts,        \* inputs made so far in the edit fields and in the search
                     \* and filter controls (bounded by MaxEdits)
    lastUpdated,     \* this.lastUpdated
    issued,          \* delta fetches issued: those of manifest positions 1..issued
    controls,        \* values of #searchInput, of the three filter selects and
                     \* of #sortBy
    modal,           \* #itemModal: closed, or what showItemDetails rendered and
                     \* the inline edits made of it since
    url              \* the search parameters of window.location

vars == <<baseFile, indexFile, storage, items, localEdits, pc, k,
          filteredItems, allBoxes, allCategories, allPeople, editMode, dom, attempts,
          lastUpdated, issued, controls, modal, url>>

\* the served documents never change during a run
files == <<baseFile, indexFile>>

NULL == [null |-> TRUE]
FAIL == [rejected |-> TRUE]
NoDate == "null"      \* a box_history entry's to: null

\* ---------------------------------------------------------------- bounds
MaxDeltas == 2      \* manifest length, for deltas of at most one sub-entry
MaxEntries == 2     \* sub-entries (added + updated + removed) of a delta listed alone
MaxEdits == 2       \* inputs in edit fields and in the search and filter
                    \* controls, over all sessions of a run

\* ------------------------------------------------------ sequence helpers
Range(s) == {s[i] : i \in 1..Len(s)}

IsPrefix(s, t) == Len(s) <= Len(t) /\ \A i \in 1..Len(s) : s[i] = t[i]

RemoveAt(s, i) == [j \in 1..(Len(s) - 1) |-> IF j < i THEN s[j] ELSE s[j + 1]]

SeqsUpTo(S, n) == UNION {[1..m -> S] : m \in 0..n}

\* ------------------------------------------------------------ JS helpers
Has(o, f) == f \in DOMAIN o

\* a variant of ObjectAssign: keys the target already has keep their value
ObjectAssignKeep(target, source) ==
    [f \in DOMAIN target \cup DOMAIN source |->
        IF f \in DOMAIN target THEN target[f] ELSE source[f]]

\* Object.assign(target, source): own keys of source overwrite target's, whole
\* values at a time (shallow).
ObjectAssign(target, source) ==
    [f \in DOMAIN target \cup DOMAIN source |->
        IF f \in DOMAIN source THEN source[f] ELSE target[f]]

\* obj[field] || fallback, for a field that holds a non-empty string if present
OrDefault(obj, f, fallback) == IF Has(obj, f) THEN obj[f] ELSE fallback

\* obj[field] = value
SetField(obj, f, v) == [g \in DOMAIN obj \cup {f} |-> IF g = f THEN v ELSE obj[g]]

\* Array.prototype.findIndex(item => item.id === id) over this.items:
\* the first index whose record has that id, 0 when there is none (JS -1), and
\* THROWN when the scan reads .id of a null record before it finds one.
THROWN == 0 - 1
NOTFOUND == 0

FindIndex(its, id) ==
    LET stops == {i \in 1..Len(its) : its[i] = NULL \/ its[i].id = id}
    IN  IF stops = {} THEN NOTFOUND
        ELSE LET m == CHOOSE i \in stops : \A j \in stops : i <= j
             IN  IF its[m] = NULL THEN THROWN ELSE m

\* --------------------------------------------------------- mergeDelta
\* A running forEach: the collection as mutated so far, and whether an
\* exception has escaped (the callbacks after it never run).
St(its, threw) == [items |-> its, threw |-> threw]

\* if (delta.added) this.items.push(...delta.added)
ApplyAdded(its, delta) ==
    IF Has(delta, "added") THEN its \o delta.added ELSE its

\* update.set || {}
SetOf(update) == IF Has(update, "set") THEN update.set ELSE <<>>

\* a variant of AppendHistory: item.box_history = append
AppendHistoryReplace(item, append) == SetField(item, "box_history", append)

\* item.box_history = item.box_history || []; item.box_history.push(...append)
AppendHistory(item, append) ==
    SetField(item, "box_history",
             (IF Has(item, "box_history") THEN item.box_history ELSE <<>>) \o append)

\* a variant of UpdateItem: the history is appended first and the set merged
\* after it
UpdateItemAssignLast(item, update) ==
    IF Has(update, "box_history_append")
    THEN ObjectAssign(AppendHistory(item, update.box_history_append), SetOf(update))
    ELSE ObjectAssign(item, SetOf(update))

\* the merge of one update into the record it found
UpdateItem(item, update) ==
    LET merged == ObjectAssign(item, SetOf(update))
    IN  IF Has(update, "box_history_append")
        THEN AppendHistory(merged, update.box_history_append)
        ELSE merged

\* one callback of delta.updated.forEach.  update.id is read inside the
\* findIndex callback only: a null entry throws when findIndex visits a record
\* (item.id, then update.id), and is passed over on an empty collection.
ApplyUpdate(its, update) ==
    IF update = NULL THEN St(its, its /= <<>>)
    ELSE LET itemIndex == FindIndex(its, update.id)
         IN  IF itemIndex = THROWN THEN St(its, TRUE)
             ELSE IF itemIndex = NOTFOUND THEN St(its, FALSE)
             ELSE St([its EXCEPT ![itemIndex] = UpdateItem(its[itemIndex], update)],
                     FALSE)

RECURSIVE ApplyUpdated(_, _)
ApplyUpdated(its, updated) ==
    IF updated = <<>> THEN St(its, FALSE)
    ELSE LET r == ApplyUpdate(its, Head(updated))
         IN  IF r.threw THEN r ELSE ApplyUpdated(r.items, Tail(updated))

\* one callback of delta.removed.forEach
ApplyRemove(its, itemId) ==
    LET itemIndex == FindIndex(its, itemId)
    IN  IF itemIndex = THROWN THEN St(its, TRUE)
        ELSE IF itemIndex = NOTFOUND THEN St(its, FALSE)
        ELSE St(RemoveAt(its, itemIndex), FALSE)

RECURSIVE ApplyRemoved(_, _)
ApplyRemoved(its, removed) ==
    IF removed = <<>> THEN St(its, FALSE)
    ELSE LET r == ApplyRemove(its, Head(removed))
         IN  IF r.threw THEN r ELSE ApplyRemoved(r.items, Tail(removed))

\* mergeDelta(delta): added, then updated, then removed, on this.items in
\* place; an exception leaves what was done so far and skips the rest.
MergeDelta(its, delta) ==
    LET a == ApplyAdded(its, delta)
        u == IF Has(delta, "updated") THEN ApplyUpdated(a, delta.updated)
             ELSE St(a, FALSE)
    IN  IF u.threw THEN u
        ELSE IF Has(delta, "removed") THEN ApplyRemoved(u.items, delta.removed)
        ELSE u

\* ------------------------------------------------------- local edits
DefaultEdits == [edited |-> <<>>]

\* localStorage holds strings.  A string that JSON.parse accepts is the record
\* [json |-> v] of the value v it parses to; CORRUPT is a string it rejects.
\* DENIED is a storage whose getItem and setItem both throw.
DENIED == [denied |-> TRUE]
CORRUPT == [text |-> "{"]

\* JSON.stringify(value)
Stringify(value) == [json |-> value]

\* JSON.parse throws on this string
ParseThrows(string) == ~Has(string, "json")

\* JSON.parse(string), for a string it accepts
Parse(string) == string.json

\* loadLocalEdits(): getItem throwing and JSON.parse throwing go to the catch,
\* an unset key is falsy; all three give the default.  Anything else that
\* parses is returned as it is.
LoadLocalEdits(stored) ==
    IF stored = DENIED \/ stored = NULL \/ ParseThrows(stored) THEN DefaultEdits
    ELSE Parse(stored)

\* a variant of SaveLocalEdits whose catch removes the key
SaveLocalEditsOrClear(stored, value, written) ==
    IF written THEN Stringify(value) ELSE NULL

\* saveLocalEdits(): setItem of the stringified overlay; when setItem throws
\* (written = FALSE) the catch logs and the stored string stays
SaveLocalEdits(stored, value, written) ==
    IF written THEN Stringify(value) ELSE stored

\* this.localEdits.edited can be read: localEdits is an object with that key
HasEdited(value) == value /= NULL /\ Has(value, "edited")

\* one callback of localEdits.edited.forEach in applyLocalEdits
ApplyEdit(its, edit) ==
    LET itemIndex == FindIndex(its, edit.id)
    IN  IF itemIndex = THROWN THEN St(its, TRUE)
        ELSE IF itemIndex = NOTFOUND THEN St(its, FALSE)
        ELSE St([its EXCEPT ![itemIndex] =
                    SetField(ObjectAssign(its[itemIndex], edit.set), "_edited", TRUE)],
                FALSE)

RECURSIVE ApplyLocalEdits(_, _)
ApplyLocalEdits(its, edited) ==
    IF edited = <<>> THEN St(its, FALSE)
    ELSE LET r == ApplyEdit(its, Head(edited))
         IN  IF r.threw THEN r ELSE ApplyLocalEdits(r.items, Tail(edited))

\* a variant of RecordEdit that never looks for an entry of the item: every
\* edit pushes a new entry
RecordEditPush(edits, itemId, field, value, now) ==
    SetField(
        SetField(edits, "edited",
                 Append(edits.edited, [id |-> itemId, set |-> SetField(<<>>, field, value)])),
        "timestamp", now)

\* addLocalEdit(itemId, field, value), the overlay part: find or create the
\* entry, entry.set[field] = value, stamp the overlay with the time `now`.
RecordEdit(edits, itemId, field, value, now) ==
    LET hits == {i \in 1..Len(edits.edited) : edits.edited[i].id = itemId}
        withEntry == IF hits = {} THEN Append(edits.edited, [id |-> itemId, set |-> <<>>])
                     ELSE edits.edited
        e == IF hits = {} THEN Len(withEntry)
             ELSE CHOOSE i \in hits : \A j \in hits : i <= j
    IN  SetField(
            SetField(edits, "edited",
                     [withEntry EXCEPT ![e] =
                         [id |-> withEntry[e].id,
                          set |-> SetField(withEntry[e].set, field, value)]]),
            "timestamp", now)

\* a variant of EditItem that leaves the record unmarked
EditItemUnmarked(its, itemId, field, value) ==
    LET itemIndex == FindIndex(its, itemId)
    IN  IF itemIndex = THROWN \/ itemIndex = NOTFOUND THEN its
        ELSE [its EXCEPT ![itemIndex] = SetField(its[itemIndex], field, value)]

\* addLocalEdit(itemId, field, value), the in-memory part: item[field] = value
\* and item._edited = true on the record items.find returns.
EditItem(its, itemId, field, value) ==
    LET itemIndex == FindIndex(its, itemId)
    IN  IF itemIndex = THROWN \/ itemIndex = NOTFOUND THEN its
        ELSE [its EXCEPT ![itemIndex] =
                 SetField(SetField(its[itemIndex], field, value), "_edited", TRUE)]

\* ------------------------------------------------- the served documents
Ids == {"it_1", "it_2"}

HistOpen(box) == [box_id |-> box, to |-> NoDate]
HistClosed(box) == [box_id |-> box, to |-> "2025-02-01"]

\* item.people as the data files carry it: an array of names.  An inline edit
\* of the field stores the typed string instead, so the value of this field is
\* tagged with its kind: People(array) or Text(string).
People(names) == [array |-> names]
Text(string) == [text |-> string]

\* the JS value that a string typed for a field is
FieldValue(field, string) == IF field = "people" THEN Text(string) ELSE string

\* records of the base snapshot: it_1 carries people and a one-entry history,
\* it_2 has neither key (the optional fields are absent)
BaseItem(id) ==
    IF id = "it_1"
    THEN [id |-> id, item_name |-> "A", box_id |-> "DO3M", category |-> "Documents",
          people |-> People(<<"Gloria">>), box_history |-> <<HistOpen("DO3M")>>]
    ELSE [id |-> id, item_name |-> "A", box_id |-> "DO3M", category |-> "Documents"]

\* full records of a delta's added list
AddedItem(id) ==
    [id |-> id, item_name |-> "N", box_id |-> "KT2L", category |-> "Kitchen",
     box_history |-> <<HistOpen("KT2L")>>]

AddedEntries == {AddedItem(id) : id \in Ids} \cup {NULL}

\* entries of a delta's updated list: a rename, a raw history append, a move
\* that rewrites the old history as closed and appends the new location, and
\* a malformed (null) entry
UpdateEntries ==
    {[id |-> id, set |-> [item_name |-> n]] : id \in Ids, n \in {"B", "C"}}
    \cup {[id |-> id, box_history_append |-> <<HistOpen("S")>>] : id \in Ids}
    \cup {[id |-> id, set |-> [box_history |-> <<HistClosed("DO3M")>>],
           box_history_append |-> <<HistOpen("S")>>] : id \in Ids}
    \cup {NULL}

RemovedEntries == Ids

\* a delta document; a list that is empty is left out of the document
MkDelta(a, u, r) ==
    [f \in (IF a = <<>> THEN {} ELSE {"added"})
           \cup (IF u = <<>> THEN {} ELSE {"updated"})
           \cup (IF r = <<>> THEN {} ELSE {"removed"}) |->
        CASE f = "added" -> a
          [] f = "updated" -> u
          [] OTHER -> r]

DeltasUpTo(n) ==
    {MkDelta(a, u, r) : <<a, u, r>> \in
        {t \in SeqsUpTo(AddedEntries, n) \X SeqsUpTo(UpdateEntries, n)
                 \X SeqsUpTo(RemovedEntries, n) :
            Len(t[1]) + Len(t[2]) + Len(t[3]) <= n}}

\* what a manifest entry's filename serves: a delta document, or FAIL when the
\* fetch or the JSON parse rejects.  A manifest is up to MaxDeltas entries of
\* at most one sub-entry each (the same document may be listed twice), or one
\* delta of up to MaxEntries sub-entries.
Manifests ==
    SeqsUpTo(DeltasUpTo(1) \cup {FAIL}, MaxDeltas)
    \cup {<<d>> : d \in DeltasUpTo(MaxEntries)}

Bases == {<<>>, <<BaseItem("it_1")>>, <<BaseItem("it_2")>>,
          <<BaseItem("it_1"), BaseItem("it_2")>>}

BaseFiles ==
    {FAIL, [catalog_version |-> "1.0.0"], [items |-> <<BaseItem("it_1")>>]}
    \cup {[catalog_version |-> "1.0.0", items |-> b] : b \in Bases \ {<<>>}}

IndexFiles ==
    {FAIL, [last_updated |-> "2025-02-01"], [deltas |-> <<FAIL>>]}
    \cup {[last_updated |-> "2025-02-01", deltas |-> m] : m \in Manifests \ {<<>>}}

\* overlays an earlier session left in localStorage.  A timestamp is the time
\* of the edit on the clock that the attempts counter is: 0 is before the run.
StoredEdit(id) == [id |-> id, set |-> [item_name |-> "E"]]

Storages ==
    {NULL}
    \cup {Stringify([edited |-> e, timestamp |-> 0]) :
            e \in {<<StoredEdit("it_1")>>, <<StoredEdit("it_2")>>,
                   <<StoredEdit("it_1"), StoredEdit("it_2")>>}}

StoredOverlay ==
    Stringify([edited |-> <<StoredEdit("it_1"), StoredEdit("it_2")>>, timestamp |-> 0])

\* every kind of value the key can hold: no key; an overlay; a string that
\* does not parse; strings that parse to something that is no overlay (null,
\* an object without an edited list); a storage that cannot be accessed
AnyStorages ==
    {NULL,
     StoredOverlay,
     CORRUPT, Stringify(NULL), Stringify([edits |-> <<>>]), DENIED}

\* baseData.items || []
BaseItems == IF Has(baseFile, "items") THEN baseFile.items ELSE <<>>

\* updatesIndex.deltas || []
Manifest ==
    IF indexFile /= FAIL /\ Has(indexFile, "deltas") THEN indexFile.deltas ELSE <<>>

\* -------------------------------------------------------------- the page
\* the page before any script ran: an empty grid and a no-results panel whose
\* display is the stylesheet's (cards: the records of the cards in the grid,
\* as their positions in this.items), filters holding only their "all" option, no
\* edit status text.  editStatus is the number N of "N edit(s) pending
\* export", 0 for the empty text (the text is only written for N > 0).
InitialDom ==
    [grid |-> [content |-> "empty", display |-> "css"],
     cards |-> <<>>,
     noResults |-> "css",
     boxFilter |-> {}, categoryFilter |-> {}, peopleFilter |-> {},
     editStatus |-> 0]

\* showError(message): the grid's content becomes the message
ShowError(d) == [d EXCEPT !.grid.content = "error", !.cards = <<>>]

\* updateFilters(): one option appended per value of the three sets
UpdateFilters(d, boxes, categories, people) ==
    [d EXCEPT !.boxFilter = @ \cup boxes,
              !.categoryFilter = @ \cup categories,
              !.peopleFilter = @ \cup people]

\* createItemCard(item) throws on a null record and on people that is a
\* non-empty string (truthy, and without map)
CardThrows(item) ==
    \/ item = NULL
    \/ Has(item, "people") /\ Has(item.people, "text") /\ item.people.text /= ""

\* renderItems(): nothing to show hides the grid and shows the no-results
\* panel, leaving the grid's content; otherwise the grid is shown and emptied,
\* and one card per record is appended, up to the first record whose card
\* cannot be created (the exception leaves the cards before it)
RenderItems(d, its, filtered) ==
    IF Len(filtered) = 0
    THEN [dom |-> [d EXCEPT !.grid.display = "none", !.noResults = "block"],
          threw |-> FALSE]
    ELSE LET bad == {j \in 1..Len(filtered) : CardThrows(its[filtered[j]])}
             n == IF bad = {} THEN Len(filtered)
                  ELSE (CHOOSE j \in bad : \A h \in bad : j <= h) - 1
         IN  [dom |-> [d EXCEPT !.grid = [content |-> IF n = 0 THEN "empty" ELSE "cards",
                                          display |-> "grid"],
                                !.cards = SubSeq(filtered, 1, n),
                                !.noResults = "none"],
              threw |-> bad /= {}]

\* a variant of UpdateStats that counts the overlay entries whose item is in
\* the collection
UpdateStatsPresent(d, edits_, mode) ==
    LET n == Cardinality({i \in 1..Len(edits_.edited) :
                \E j \in 1..Len(items) : items[j].id = edits_.edited[i].id})
    IN  [d EXCEPT !.editStatus = IF mode /\ n > 0 THEN n ELSE 0]

\* updateStats(), the edit status: the length of localEdits.edited, written
\* only in edit mode and when it is not zero
UpdateStats(d, edits_, mode) ==
    [d EXCEPT !.editStatus = IF mode /\ Len(edits_.edited) > 0
                             THEN Len(edits_.edited) ELSE 0]

\* the scan of loadCatalogData that collects the filter values, record by
\* record: box_id, category, then people.forEach when people is truthy.  It
\* throws on a null record and on people that is a non-empty string (truthy,
\* and without forEach).
ScanItem(acc, item) ==
    IF item = NULL THEN [acc EXCEPT !.threw = TRUE]
    ELSE LET withBox == [acc EXCEPT !.boxes = @ \cup {item.box_id},
                                    !.categories = @ \cup {item.category}]
         IN  IF ~Has(item, "people") \/ item.people = Text("") THEN withBox
             ELSE IF Has(item.people, "array")
             THEN [withBox EXCEPT !.people = @ \cup Range(item.people.array)]
             ELSE [withBox EXCEPT !.threw = TRUE]

RECURSIVE ScanFilters(_, _)
ScanFilters(acc, its) ==
    IF its = <<>> \/ acc.threw THEN acc
    ELSE ScanFilters(ScanItem(acc, Head(its)), Tail(its))

\* ------------------------------------------------------ search and filters
\* the controls of a page just loaded: an empty search box, every filter on
\* its "all" option (value ""), #sortBy on its first option
NoControls ==
    [search |-> "", box |-> "", category |-> "", people |-> "", sort |-> "date-desc"]

SearchTerms == {"", "kitchen", "gloria"}

SortValues == {"date-desc", "date-asc", "name-asc", "name-desc", "box-asc"}

\* what the user can put in the controls of page d: any text in the search
\* box, and in a select one of the options that updateFilters appended
ControlValues(d) ==
    [search : SearchTerms, box : {""} \cup d.boxFilter,
     category : {""} \cup d.categoryFilter, people : {""} \cup d.peopleFilter,
     sort : SortValues]

\* an input or change event is of one control: the others keep their value
OneControl(c, d) ==
    Cardinality({f \in DOMAIN c : c[f] /= d[f]}) <= 1

\* String.prototype.toLowerCase, on the field values used here
Lower(text) ==
    CASE text = "Kitchen" -> "kitchen"
      [] text = "Documents" -> "documents"
      [] text = "Gloria" -> "gloria"
      [] text = "DO3M" -> "do3m"
      [] text = "KT2L" -> "kt2l"
      [] text = "A" -> "a"
      [] text = "B" -> "b"
      [] text = "C" -> "c"
      [] text = "E" -> "e"
      [] text = "F" -> "f"
      [] text = "G" -> "g"
      [] text = "N" -> "n"
      [] OTHER -> text

\* the strings that filterItems joins into searchableText, for the fields
\* the records here carry; people that is a string is spread into its
\* characters (the strings here have one)
SearchableFields(item) ==
    {item.item_name, item.category, item.box_id}
    \cup (IF Has(item, "description") THEN {item.description} ELSE {})
    \cup (IF Has(item, "notes") THEN {item.notes} ELSE {})
    \cup (IF ~Has(item, "people") THEN {}
          ELSE IF Has(item.people, "array") THEN Range(item.people.array)
          ELSE {item.people.text})

\* searchableText.includes(searchTerm), for a term that is a whole field
\* value in lower case and part of no other value
Includes(item, term) == term \in {Lower(v) : v \in SearchableFields(item)}

\* item.people.includes(name): membership for an array; for a string, the
\* substring test, which no string typed here passes for a name of the filter
PeopleIncludes(item, name) ==
    Has(item, "people") /\ Has(item.people, "array") /\ name \in Range(item.people.array)

\* the callback of this.items.filter in filterItems
Passes(item, c) ==
    /\ c.search /= "" => Includes(item, c.search)
    /\ c.box /= "" => item.box_id = c.box
    /\ c.category /= "" => item.category = c.category
    /\ c.people /= "" => PeopleIncludes(item, c.people)

\* positions 1..n of its that pass, in order
RECURSIVE Filtered(_, _, _)
Filtered(its, c, n) ==
    IF n = 0 THEN <<>>
    ELSE IF Passes(its[n], c) THEN Append(Filtered(its, c, n - 1), n)
    ELSE Filtered(its, c, n - 1)

\* localeCompare of the strings the records here hold: their place in the
\* collation order
Rank(text) ==
    CASE text = "" -> 0
      [] text = "A" -> 1
      [] text = "B" -> 2
      [] text = "C" -> 3
      [] text = "DO3M" -> 4
      [] text = "E" -> 5
      [] text = "F" -> 6
      [] text = "G" -> 7
      [] text = "KT2L" -> 8
      [] text = "N" -> 9
      [] OTHER -> 10

\* what the comparator of sortItems returns for records a and b: negative,
\* zero or positive
Compare(sortBy, a, b) ==
    CASE sortBy = "date-desc" -> Rank(OrDefault(b, "date_found", "")) - Rank(OrDefault(a, "date_found", ""))
      [] sortBy = "date-asc" -> Rank(OrDefault(a, "date_found", "")) - Rank(OrDefault(b, "date_found", ""))
      [] sortBy = "name-asc" -> Rank(a.item_name) - Rank(b.item_name)
      [] sortBy = "name-desc" -> Rank(b.item_name) - Rank(a.item_name)
      [] sortBy = "box-asc" -> Rank(a.box_id) - Rank(b.box_id)
      [] OTHER -> 0

\* Array.prototype.sort is stable: position p goes after the last position
\* that does not compare greater than it
RECURSIVE InsertSorted(_, _, _, _)
InsertSorted(its, sorted, p, sortBy) ==
    IF sorted = <<>> THEN <<p>>
    ELSE IF Compare(sortBy, its[sorted[Len(sorted)]], its[p]) <= 0
    THEN Append(sorted, p)
    ELSE Append(InsertSorted(its, SubSeq(sorted, 1, Len(sorted) - 1), p, sortBy),
                sorted[Len(sorted)])

\* sortItems(sortBy), on this.filteredItems
RECURSIVE SortItems(_, _, _)
SortItems(its, filtered, sortBy) ==
    IF filtered = <<>> THEN <<>>
    ELSE InsertSorted(its, SortItems(its, SubSeq(filtered, 1, Len(filtered) - 1), sortBy),
                      filtered[Len(filtered)], sortBy)

\* -------------------------------------------------------- inline editing
\* the editable fields of the modal; description and notes get a textarea
EditFields == {"item_name", "box_id", "category", "description", "notes", "people"}

\* what the user leaves in the input
Typed == {" ", "F", "G "}

\* String.prototype.trim, on the strings above
Trim(text) ==
    CASE text = " " -> ""
      [] text = "G " -> "G"
      [] OTHER -> text

\* text of the Box Location field: "<box_id> - <box_friendly>", trimmed; the
\* records here carry no box_friendly
BoxText(box) == box \o " -"

\* showItemDetail can build the modal: item.people.join exists unless people
\* is a string
CanShow(item) == Has(item, "people") => Has(item.people, "array")

\* people.join(', '), for the arrays of at most one name used here
Join(names) == IF Len(names) = 0 THEN "" ELSE names[1]

\* the trimmed text of a field of the modal as showItemDetails renders it
FieldText(item, field) ==
    CASE field = "box_id" -> BoxText(item.box_id)
      [] field = "people" ->
            IF Has(item, "people") THEN Join(item.people.array) ELSE "None"
      [] field \in {"description", "notes"} -> OrDefault(item, field, "")
      [] OTHER -> item[field]

\* the modal before a card was clicked, and after closeModal
NoModal == [open |-> FALSE]

\* the modal that showItemDetails(item) builds: the fields get their click
\* listener (setupInlineEditing) when the page is in edit mode at that
\* moment.  text is the text of each field; input is the set of fields that
\* hold an input an edit that threw left there, and for these text is the
\* text the field had at the click that opened the input; newValue is the
\* newValue of the last run of saveEdit for an input of this modal, if any.
Modal(item, mode) ==
    [open |-> TRUE, id |-> item.id, editable |-> mode,
     text |-> [f \in EditFields |-> FieldText(item, f)],
     input |-> {}, newValue |-> <<>>]

\* currentValue: the trimmed text of the field at the click that opens the
\* input.  The blur and keydown listeners of the input keep it, so an input
\* that is still in the field answers with the currentValue of its click
\* (another click on the field returns at once, "already editing").
CurrentValue(m, field) == m.text[field]

\* a variant of ShouldRecord without the emptiness test
ShouldRecordAny(newValue, currentValue) == newValue /= currentValue

\* saveEdit's test: a non-empty value that differs from the one shown
ShouldRecord(newValue, currentValue) == newValue /= "" /\ newValue /= currentValue

\* an address without search parameters
NoParams == [search |-> "", box |-> "", category |-> "", people |-> "", sort |-> ""]

\* updateURLParams with the values filterItems read from the controls (the
\* search term in lower case): a parameter is set for each value that is not
\* empty and deleted for each that is
UpdateURLParams(c) == [c EXCEPT !.search = Lower(c.search)]

\* the controls after applyURLParams on page d with controls c: a text is
\* assigned to the search box as it is, a select takes a value only when it
\* has an option of that value and has no selection otherwise (its value is
\* the empty string), and a parameter that is absent leaves its control alone
ApplyURLParams(d, c, u) ==
    [search   |-> IF u.search /= "" THEN u.search ELSE c.search,
     box      |-> IF u.box = "" THEN c.box
                  ELSE IF u.box \in d.boxFilter THEN u.box ELSE "",
     category |-> IF u.category = "" THEN c.category
                  ELSE IF u.category \in d.categoryFilter THEN u.category ELSE "",
     people   |-> IF u.people = "" THEN c.people
                  ELSE IF u.people \in d.peopleFilter THEN u.people ELSE "",
     sort     |-> IF u.sort = "" THEN c.sort
                  ELSE IF u.sort \in SortValues THEN u.sort ELSE ""]

\* the test of applyURLParams before it calls filterItems
HasFilterParam(u) ==
    u.search /= "" \/ u.box /= "" \/ u.category /= "" \/ u.people /= ""

\* filterItems() on page d with the controls holding c: the records that pass
\* are sorted, updateURLParams writes the address, then renderItems runs, then
\* updateStats unless renderItems threw; updateStats throws when localEdits
\* has no edited list.
RunFilter(c, d) ==
    /\ controls' = c
    /\ filteredItems' = SortItems(items, Filtered(items, c, Len(items)), c.sort)
    /\ url' = UpdateURLParams(c)
    /\ LET r == RenderItems(d, items, filteredItems')
       IN  dom' = IF r.threw \/ ~HasEdited(localEdits) THEN r.dom
                  ELSE UpdateStats(r.dom, localEdits, editMode)

\* -------------------------------------------------------------- actions
\* the state the constructor leaves, for given files and storage
Constructed ==
    /\ items = <<>>
    /\ filteredItems = <<>>
    /\ allBoxes = {}
    /\ allCategories = {}
    /\ allPeople = {}
    /\ editMode = FALSE
    /\ localEdits = LoadLocalEdits(storage)
    /\ lastUpdated = ""
    /\ issued = 0
    /\ controls = NoControls
    /\ modal = NoModal
    /\ dom = InitialDom
    /\ pc = "base"
    /\ k = 1

Init ==
    /\ baseFile \in BaseFiles
    /\ indexFile \in IndexFiles
    /\ storage \in Storages
    /\ attempts = 0
    /\ url = NoParams
    /\ Constructed

\* loadCatalogData, to the base snapshot: a rejected fetch or parse goes to the
\* outer catch (showError)
LoadBase ==
    /\ pc = "base"
    /\ IF baseFile = FAIL
       THEN /\ pc' = "failed"
            /\ items' = items
            /\ dom' = ShowError(dom)
       ELSE /\ pc' = "index"
            /\ items' = BaseItems
            /\ dom' = dom
    /\ UNCHANGED <<files, modal, controls, url, issued, lastUpdated, storage, localEdits, k, filteredItems, allBoxes,
                   allCategories, allPeople, editMode, attempts>>

\* a variant of LastUpdated: the version of the base also when a delta of the
\* manifest could not be loaded
LastUpdatedIfAllLoaded(index, base) ==
    IF index = FAIL \/ (Has(index, "deltas") /\ FAIL \in Range(index.deltas))
    THEN OrDefault(base, "catalog_version", "N/A")
    ELSE OrDefault(index, "last_updated", "N/A")

\* this.lastUpdated as loadCatalogData assigns it: updatesIndex.last_updated
\* after the loop, baseData.catalog_version in the catch of the index
LastUpdated(index, base) ==
    IF index = FAIL THEN OrDefault(base, "catalog_version", "N/A")
    ELSE OrDefault(index, "last_updated", "N/A")

\* loadCatalogData, to the updates index: without one, the inner catch goes on
\* with base data only
LoadIndex ==
    /\ pc = "index"
    /\ pc' = IF indexFile = FAIL THEN "overlay" ELSE "deltas"
    /\ k' = 1
    /\ issued' = 0
    /\ lastUpdated' = IF indexFile = FAIL THEN LastUpdated(indexFile, baseFile)
                      ELSE lastUpdated
    /\ UNCHANGED <<files, modal, controls, url, storage, items, localEdits, filteredItems, allBoxes,
                   allCategories, allPeople, editMode, dom, attempts>>

\* what one pass of the for-of body leaves in this.items: the try block
\* fetches, parses and merges; the catch only warns
AfterDelta(its, file) ==
    IF file = FAIL THEN its ELSE MergeDelta(its, file).items

\* a variant of NextDelta: the try/catch around the whole loop, so that a
\* delta that cannot be loaded ends the loop
NextDeltaAbort(pos, file) == IF file = FAIL THEN Len(Manifest) + 1 ELSE pos + 1

\* where the for-of loop goes after a pass: the try/catch is inside the loop
\* body, so the next manifest entry, whatever happened to this one
NextDelta(pos, file) == pos + 1

\* a variant of CanIssue: the fetches are issued without awaiting the pass
\* before
CanIssueAhead(n, pos) == TRUE

\* the for-of body awaits its fetch, its parse and runs mergeDelta before the
\* next iteration starts: with n fetches issued and the loop at position pos,
\* the next fetch can be issued when the passes before it are over
CanIssue(n, pos) == n < pos

\* the loop issues the fetch of the delta at the next manifest position
FetchDelta ==
    /\ pc = "deltas"
    /\ issued < Len(Manifest)
    /\ CanIssue(issued, k)
    /\ issued' = issued + 1
    /\ UNCHANGED <<files, modal, controls, url, lastUpdated, storage, items, localEdits, pc, k, filteredItems,
                   allBoxes, allCategories, allPeople, editMode, dom, attempts>>

\* the rest of a pass of the loop over updatesIndex.deltas, when the fetch
\* of position k has settled: parse and mergeDelta, or the catch
LoadDelta ==
    /\ pc = "deltas"
    /\ k <= Len(Manifest)
    /\ k <= issued
    /\ items' = AfterDelta(items, Manifest[k])
    /\ k' = NextDelta(k, Manifest[k])
    /\ UNCHANGED <<files, modal, controls, url, issued, lastUpdated, storage, localEdits, pc, filteredItems, allBoxes,
                   allCategories, allPeople, editMode, dom, attempts>>

\* the loop is over: lastUpdated is assigned
EndDeltas ==
    /\ pc = "deltas"
    /\ k > Len(Manifest)
    /\ pc' = "overlay"
    /\ lastUpdated' = LastUpdated(indexFile, baseFile)
    /\ UNCHANGED <<files, modal, controls, url, issued, storage, items, localEdits, k, filteredItems, allBoxes,
                   allCategories, allPeople, editMode, dom, attempts>>

\* a variant of Overlaid that gives every record an _edited flag, FALSE
\* where no edit applies
OverlaidFlagged(its, value) ==
    LET r == IF HasEdited(value) THEN ApplyLocalEdits(its, value.edited)
             ELSE St(its, TRUE)
    IN  St([i \in 1..Len(r.items) |->
               IF r.items[i] = NULL \/ Has(r.items[i], "_edited") THEN r.items[i]
               ELSE SetField(r.items[i], "_edited", FALSE)],
           r.threw)

\* what applyLocalEdits leaves in this.items: reading localEdits.edited throws
\* when localEdits has no such list
Overlaid(its, value) ==
    IF HasEdited(value) THEN ApplyLocalEdits(its, value.edited) ELSE St(its, TRUE)

\* the rest of loadCatalogData: applyLocalEdits, then the scan that collects
\* the filter values; an exception in either goes to the outer catch
\* (showError), with what was done so far left in place
ApplyOverlay ==
    /\ pc = "overlay"
    /\ LET r == Overlaid(items, localEdits)
           scan == IF r.threw
                   THEN [boxes |-> allBoxes, categories |-> allCategories,
                         people |-> allPeople, threw |-> TRUE]
                   ELSE ScanFilters([boxes |-> allBoxes, categories |-> allCategories,
                                     people |-> allPeople, threw |-> FALSE], r.items)
       IN  /\ items' = r.items
           /\ allBoxes' = scan.boxes
           /\ allCategories' = scan.categories
           /\ allPeople' = scan.people
           /\ pc' = IF scan.threw THEN "failed" ELSE "done"
           /\ dom' = IF scan.threw THEN ShowError(dom) ELSE dom
    /\ UNCHANGED <<files, modal, controls, url, issued, lastUpdated, storage, localEdits, k, filteredItems, editMode, attempts>>

\* init() after loadCatalogData has returned, whether or not it showed the
\* error: setupEventListeners, updateFilters, renderItems, updateStats, and
\* applyURLParams.  updateStats throws when localEdits has no edited list: the
\* page stays as renderItems left it and applyURLParams is not reached.
\* applyURLParams puts the parameters of the address into the controls and,
\* when a search or filter parameter is among them, calls filterItems.
FinishInit ==
    /\ pc \in {"done", "failed"}
    /\ pc' = IF pc = "done" THEN "ready" ELSE "stopped"
    /\ LET r == RenderItems(UpdateFilters(dom, allBoxes, allCategories, allPeople),
                            items, filteredItems)
           reached == HasEdited(localEdits) /\ ~r.threw
           d == IF reached THEN UpdateStats(r.dom, localEdits, editMode) ELSE r.dom
       IN  IF reached /\ HasFilterParam(url)
           THEN RunFilter(ApplyURLParams(d, controls, url), d)
           ELSE /\ controls' = IF reached THEN ApplyURLParams(d, controls, url)
                               ELSE controls
                /\ dom' = d
                /\ UNCHANGED <<filteredItems, url>>
    /\ UNCHANGED <<files, modal, issued, lastUpdated, storage, items,
                   localEdits, k, allBoxes, allCategories, allPeople,
                   editMode, attempts>>

\* the listeners that setupEventListeners registered work once init() has
\* called it, on the page that shows the error too
Listening == pc \in {"ready", "stopped"}

\* click on the edit-mode button: the flag flips, then toggleEditMode calls
\* updateStats (which throws when localEdits has no edited list) and
\* renderItems
ToggleEditMode ==
    /\ Listening
    /\ editMode' = ~editMode
    /\ dom' = IF HasEdited(localEdits)
              THEN RenderItems(UpdateStats(dom, localEdits, editMode'), items,
                               filteredItems).dom
              ELSE dom
    /\ UNCHANGED <<files, modal, controls, url, issued, lastUpdated, storage, items,
                   localEdits, pc, k, filteredItems, allBoxes, allCategories, allPeople,
                   attempts>>

\* click on a card of the grid: showItemDetails(item) for the record the card
\* was created for.  people.join throws for people that is a string, before
\* the modal is touched.
ShowItemDetails ==
    /\ Listening
    /\ dom.grid.display = "grid"
    /\ \E j \in 1..Len(dom.cards) :
        modal' = IF CanShow(items[dom.cards[j]])
                 THEN Modal(items[dom.cards[j]], editMode)
                 ELSE modal
    /\ UNCHANGED <<files, controls, url, issued, lastUpdated, storage, items,
                   localEdits, pc, k, filteredItems, allBoxes, allCategories, allPeople,
                   editMode, dom, attempts>>

\* click on the close button or outside the modal: closeModal()
CloseModal ==
    /\ Listening
    /\ modal.open
    /\ modal' = NoModal
    /\ UNCHANGED <<files, controls, url, issued, lastUpdated, storage, items,
                   localEdits, pc, k, filteredItems, allBoxes, allCategories, allPeople,
                   editMode, dom, attempts>>

\* saveEdit's test for the input of field `field` of the modal with `typed`
\* in it
Recorded(field, typed) == ShouldRecord(Trim(typed), CurrentValue(modal, field))

\* addLocalEdit throws at once when localEdits has no edited list, and after
\* it saved the overlay when items.find meets a null record
ThrowsEarly == ~HasEdited(localEdits)
ThrowsLate == FindIndex(items, modal.id) = THROWN

\* saveEdit for the input that a click on field `field` of the modal opened,
\* with `typed` in it, up to the text it leaves in the field.  When the test
\* passes, addLocalEdit records the value in the overlay for the id the
\* modal was rendered for, saves the overlay (setItem succeeds or throws),
\* changes the record that items.find returns, and updateStats runs.
SaveEdit(field, typed, written) ==
    IF Recorded(field, typed) /\ ~ThrowsEarly
    THEN /\ localEdits' = RecordEdit(localEdits, modal.id, field,
                                      FieldValue(field, Trim(typed)), attempts')
         /\ storage' = SaveLocalEdits(storage, localEdits', written)
         /\ items' = EditItem(items, modal.id, field, FieldValue(field, Trim(typed)))
         /\ dom' = IF ThrowsLate THEN dom ELSE UpdateStats(dom, localEdits', editMode)
    ELSE UNCHANGED <<localEdits, storage, items, dom>>

\* a click on an editable field of the modal (or focus on the input an
\* earlier edit left in it), text typed, then blur of the input (focus moves
\* away, or Enter in a one-line input): the blur listener runs saveEdit.  The
\* field shows the new value when it was recorded, the old one when it was
\* not, and keeps the input when addLocalEdit threw.
AddLocalEdit ==
    /\ Listening
    /\ modal.open
    /\ modal.editable
    /\ attempts < MaxEdits
    /\ attempts' = attempts + 1
    /\ \E field \in EditFields, typed \in Typed, written \in BOOLEAN :
        /\ storage = DENIED => ~written
        /\ SaveEdit(field, typed, written)
        /\ modal' = IF ~Recorded(field, typed)
                    THEN [modal EXCEPT !.input = @ \ {field},
                                       !.newValue = <<Trim(typed)>>]
                    ELSE IF ThrowsEarly \/ ThrowsLate
                    THEN [modal EXCEPT !.input = @ \cup {field},
                                       !.newValue = <<Trim(typed)>>]
                    ELSE [modal EXCEPT !.text[field] = Trim(typed),
                                       !.input = @ \ {field},
                                       !.newValue = <<Trim(typed)>>]
    /\ UNCHANGED <<files, controls, url, issued, lastUpdated, pc, k, filteredItems, allBoxes,
                   allCategories, allPeople, editMode>>

\* a click on an editable field (or focus on the input an earlier edit left
\* in it), text typed, then Escape: the keydown
\* listener assigns field.textContent, which takes the focused input out of
\* the document while its blur listener is still registered.  Whether the
\* removal of a focused element dispatches blur depends on the browser: where
\* it does, saveEdit runs with the typed text inside the assignment, and the
\* field ends with the text of whichever assignment the browser completes
\* last; where it does not, nothing else happens.
EscapeEdit ==
    /\ Listening
    /\ modal.open
    /\ modal.editable
    /\ attempts < MaxEdits
    /\ attempts' = attempts + 1
    /\ \E field \in EditFields, typed \in Typed, written \in BOOLEAN,
          blurFires \in BOOLEAN :
        /\ storage = DENIED => ~written
        /\ IF blurFires
           THEN SaveEdit(field, typed, written)
           ELSE UNCHANGED <<localEdits, storage, items, dom>>
        /\ \E shown \in {CurrentValue(modal, field)}
                         \cup (IF blurFires /\ Recorded(field, typed)
                                  /\ ~ThrowsEarly /\ ~ThrowsLate
                               THEN {Trim(typed)} ELSE {}) :
            modal' = [modal EXCEPT !.text[field] = shown, !.input = @ \ {field},
                                   !.newValue = IF blurFires THEN <<Trim(typed)>>
                                                ELSE @]
    /\ UNCHANGED <<files, controls, url, issued, lastUpdated, pc, k, filteredItems, allBoxes,
                   allCategories, allPeople, editMode>>

\* filterItems() called by a listener, with the controls holding c
Filter(c) ==
    /\ RunFilter(c, dom)
    /\ UNCHANGED <<files, modal, lastUpdated, issued, storage, items, localEdits,
                   pc, k, allBoxes, allCategories, allPeople, editMode>>

\* input in the search box, or change of a filter or of #sortBy: the control
\* has its new value, and filterItems runs
FilterItems ==
    /\ Listening
    /\ attempts < MaxEdits
    /\ attempts' = attempts + 1
    /\ \E c \in ControlValues(dom) :
        /\ c /= controls
        /\ OneControl(c, controls)
        /\ Filter(c)

\* click on #clearSearch: the search box is emptied, and filterItems runs
ClearSearch ==
    /\ Listening
    /\ Filter([controls EXCEPT !.search = ""])
    /\ UNCHANGED attempts

\* the page is loaded again, refreshed at the address it has or opened at
\* its address without parameters: a new CatalogApp over the same files and
\* storage, in a new document
Reload ==
    /\ Listening
    /\ items' = <<>>
    /\ filteredItems' = <<>>
    /\ allBoxes' = {}
    /\ allCategories' = {}
    /\ allPeople' = {}
    /\ editMode' = FALSE
    /\ localEdits' = LoadLocalEdits(storage)
    /\ lastUpdated' = ""
    /\ issued' = 0
    /\ controls' = NoControls
    /\ url' \in {url, NoParams}
    /\ modal' = NoModal
    /\ dom' = InitialDom
    /\ pc' = "base"
    /\ k' = 1
    /\ UNCHANGED <<files, storage, attempts>>

\* page load: the constructor and init()
Next ==
    \/ LoadBase
    \/ LoadIndex
    \/ FetchDelta
    \/ LoadDelta
    \/ EndDeltas
    \/ ApplyOverlay
    \/ FinishInit

Spec == Init /\ [][Next]_vars

\* sessions of inline editing over a small catalog: a base of both records;
\* no updates index with every kind of stored value, a delta that adds a
\* second record of id it_1 with and without a stored overlay, and a delta
\* that removes it_2 under a stored overlay that has an entry for it
EditIndex(manifest) == [last_updated |-> "2025-02-01", deltas |-> manifest]

EditLoads ==
    ({FAIL} \X AnyStorages)
    \cup {<<EditIndex(<<MkDelta(<<AddedItem("it_1")>>, <<>>, <<>>)>>), st>> :
             st \in {NULL, StoredOverlay}}
    \cup {<<EditIndex(<<MkDelta(<<>>, <<>>, <<"it_2">>)>>), StoredOverlay>>}

EditInit ==
    /\ baseFile \in {FAIL, [catalog_version |-> "1.0.0",
                            items |-> <<BaseItem("it_1"), BaseItem("it_2")>>]}
    /\ \E load \in EditLoads :
        /\ indexFile = load[1]
        /\ storage = load[2]
    /\ attempts = 0
    /\ url = NoParams
    /\ Constructed

EditNext ==
    \/ LoadBase
    \/ LoadIndex
    \/ FetchDelta
    \/ LoadDelta
    \/ EndDeltas
    \/ ApplyOverlay
    \/ FinishInit
    \/ FilterItems
    \/ ClearSearch
    \/ ToggleEditMode
    \/ ShowItemDetails
    \/ CloseModal
    \/ AddLocalEdit
    \/ EscapeEdit
    \/ Reload

EditSpec == EditInit /\ [][EditNext]_vars

\* browsing: page loads of a small catalog, then searches, filters, sort
\* orders and the modal, without inline edits
ViewNext ==
    \/ LoadBase
    \/ LoadIndex
    \/ FetchDelta
    \/ LoadDelta
    \/ EndDeltas
    \/ ApplyOverlay
    \/ FinishInit
    \/ FilterItems
    \/ ClearSearch
    \/ ToggleEditMode
    \/ ShowItemDetails
    \/ CloseModal

ViewSpec == EditInit /\ [][ViewNext]_vars

\* ------------------------------------------------- vocabulary of the claims
Records(its) == {i \in 1..Len(its) : its[i] /= NULL}

WithId(its, id) == {i \in Records(its) : its[i].id = id}

Hist(item) == IF Has(item, "box_history") THEN item.box_history ELSE <<>>

OpenCount(h) == Cardinality({i \in 1..Len(h) : h[i].to = NoDate})

AddedOf(d) == IF d /= FAIL /\ Has(d, "added") THEN d.added ELSE <<>>
UpdatedOf(d) == IF d /= FAIL /\ Has(d, "updated") THEN d.updated ELSE <<>>
RemovedOf(d) == IF d /= FAIL /\ Has(d, "removed") THEN d.removed ELSE <<>>

WellFormed(d) == NULL \notin Range(AddedOf(d)) \cup Range(UpdatedOf(d))

Adds(d, id) == \E a \in Range(AddedOf(d)) : a /= NULL /\ a.id = id
Removes(d, id) == id \in Range(RemovedOf(d))

\* the positions of d.updated whose entry sets field f of item id
Setting(d, id, f) ==
    {i \in 1..Len(UpdatedOf(d)) :
        /\ UpdatedOf(d)[i] /= NULL
        /\ UpdatedOf(d)[i].id = id
        /\ f \in DOMAIN SetOf(UpdatedOf(d)[i])}

\* the value the last such entry of d gives the field
LastValue(d, id, f) ==
    LET i == CHOOSE i \in Setting(d, id, f) : \A j \in Setting(d, id, f) : j <= i
    IN  UpdatedOf(d)[i].set[f]

Loaded(file) == file /= FAIL

\* the reference reconciliation: the deltas of a list merged in order
RECURSIVE ReconcileDeltas(_, _)
ReconcileDeltas(its, deltas) ==
    IF deltas = <<>> THEN its
    ELSE ReconcileDeltas(MergeDelta(its, Head(deltas)).items, Tail(deltas))

Swap(s, i, j) == [s EXCEPT ![i] = s[j], ![j] = s[i]]

\* a delta is about to be merged into the collection of this state
AtDelta == pc = "deltas" /\ k <= Len(Manifest) /\ Manifest[k] /= FAIL

\* the loop over the manifest has ended and the overlay is not applied yet
AfterDeltas == pc = "overlay" /\ indexFile /= FAIL

\* a delta document without malformed sub-entries that lists no id twice in
\* its added list
Clean(d) ==
    /\ WellFormed(d)
    /\ \A i, j \in 1..Len(AddedOf(d)) : AddedOf(d)[i].id = AddedOf(d)[j].id => i = j

CleanManifest == \A p \in 1..Len(Manifest) : Clean(Manifest[p])

\* ------------------------------------------------------------------ C1
\* C1: merging the same well-formed delta a second time leaves the collection
\* the first merge produced (no record of added is duplicated, removed ids
\* stay out).
C1_SameDeltaTwice ==
    (AtDelta /\ CleanManifest) =>
        LET once == MergeDelta(items, Manifest[k]).items
        IN  MergeDelta(once, Manifest[k]).items = once

\* ------------------------------------------------------------------ C2
\* C2: in every state of the load and after it, no two records of items have
\* the same id (every base of the model has unique ids; the deltas are
\* well-formed and none lists an id twice).
C2_UniqueIds ==
    CleanManifest =>
        \A i, j \in Records(items) : items[i].id = items[j].id => i = j

\* ------------------------------------------------------------------ C3
\* C3: after the load, an id listed in removed of a loaded delta that no later
\* delta adds again has no record in the collection.
C3_RemovalFinal ==
    (pc = "done" /\ CleanManifest) =>
        \A p \in 1..Len(Manifest) : \A id \in Range(RemovedOf(Manifest[p])) :
            (\A q \in (p + 1)..Len(Manifest) : ~Adds(Manifest[q], id))
                => WithId(items, id) = {}

\* ------------------------------------------------------------------ C4
\* C4: after the load, every record whose id has an overlay entry carries the
\* overlay's value in every field of that entry's set.
C4_OverlayPrecedence ==
    (pc = "done" /\ CleanManifest) =>
        \A e \in Range(localEdits.edited) : \A i \in WithId(items, e.id) :
            \A f \in DOMAIN e.set : Has(items[i], f) /\ items[i][f] = e.set[f]

\* ------------------------------------------------------------------ C5
\* the delta at manifest position p sets field f of item id
Setter(p, id, f) == Setting(Manifest[p], id, f) /= {}

\* item id is in the base and no delta of the manifest adds or removes it
Existing(id) ==
    /\ WithId(BaseItems, id) /= {}
    /\ \A p \in 1..Len(Manifest) : ~Adds(Manifest[p], id) /\ ~Removes(Manifest[p], id)

\* field f of the record a lookup of id finds
FieldOf(its, id, f) == its[FindIndex(its, id)][f]

\* C5: when two well-formed deltas of the manifest set the same field of an
\* existing item and no delta after the later one sets it, the field's value
\* after the loop is the later delta's; with the two manifest positions
\* swapped it is the other one's.
C5_LaterDeltaWins ==
    (AfterDeltas /\ CleanManifest) =>
        \A id \in Ids : \A p, q \in 1..Len(Manifest) :
            (/\ p < q
             /\ Existing(id)
             /\ Setter(p, id, "item_name")
             /\ Setter(q, id, "item_name")
             /\ \A r \in (q + 1)..Len(Manifest) : ~Setter(r, id, "item_name"))
            => /\ FieldOf(items, id, "item_name")
                    = LastValue(Manifest[q], id, "item_name")
               /\ FieldOf(ReconcileDeltas(BaseItems, SelectSeq(Swap(Manifest, p, q), Loaded)),
                          id, "item_name")
                    = LastValue(Manifest[p], id, "item_name")

\* two deltas renamed it_1 to different names and the later name is the one
\* the collection holds
C5_Witness ==
    /\ AfterDeltas
    /\ Len(Manifest) = 2
    /\ Existing("it_1")
    /\ Setter(1, "it_1", "item_name")
    /\ Setter(2, "it_1", "item_name")
    /\ LastValue(Manifest[1], "it_1", "item_name") = "B"
    /\ LastValue(Manifest[2], "it_1", "item_name") = "C"
    /\ FieldOf(items, "it_1", "item_name") = "C"

\* ------------------------------------------------------------------ C6
\* the update entries of d for item id, in list order
RECURSIVE UpdatesFor(_, _)
UpdatesFor(updated, id) ==
    IF updated = <<>> THEN <<>>
    ELSE IF Head(updated) /= NULL /\ Head(updated).id = id
         THEN <<Head(updated)>> \o UpdatesFor(Tail(updated), id)
         ELSE UpdatesFor(Tail(updated), id)

RECURSIVE MergedOnto(_, _)
MergedOnto(item, updates) ==
    IF updates = <<>> THEN item
    ELSE MergedOnto(UpdateItem(item, Head(updates)), Tail(updates))

\* C6: after mergeDelta of a well-formed delta, an id in both added and removed
\* has no record, and an id in added and updated (not removed) has a record
\* that is the added record with the updates' sets merged on top.
C6_PhaseOrder ==
    (AtDelta /\ CleanManifest) =>
        LET d == Manifest[k]
            after == MergeDelta(items, d).items
        IN  \A a \in Range(AddedOf(d)) :
                /\ Removes(d, a.id) => WithId(after, a.id) = {}
                /\ (UpdatesFor(UpdatedOf(d), a.id) /= <<>> /\ ~Removes(d, a.id))
                     => \E i \in WithId(after, a.id) :
                            after[i] = MergedOnto(a, UpdatesFor(UpdatedOf(d), a.id))

\* ------------------------------------------------------------------ C7
\* the history of every record is extended, position by position
HistoriesGrow(before, after) ==
    /\ Len(after) = Len(before)
    /\ \A i \in Records(before) :
          after[i] /= NULL /\ IsPrefix(Hist(before[i]), Hist(after[i]))

\* the collection before and after the updated phase of the delta at hand,
\* and before and after applyLocalEdits
UpdatedPhaseGrows ==
    AtDelta =>
        LET a == ApplyAdded(items, Manifest[k])
        IN  HistoriesGrow(a, ApplyUpdated(a, UpdatedOf(Manifest[k])).items)

OverlayGrows ==
    pc = "overlay" => HistoriesGrow(items, ApplyLocalEdits(items, localEdits.edited).items)

\* C7 as stated: every update of a delta and applyLocalEdits leave each
\* record's box_history before the step a prefix of its box_history after it.
C7_HistoryOnlyGrows == UpdatedPhaseGrows /\ OverlayGrows

\* some set of the delta's updates, or of the overlay, names box_history
SetsHistory(entries) ==
    \E e \in Range(entries) : e /= NULL /\ "box_history" \in DOMAIN SetOf(e)

\* C7 amended: the same, for the updates and overlay entries whose set does not
\* name box_history (box_history_append itself only appends).
C7_AppendOnlyGrows ==
    /\ (AtDelta /\ ~SetsHistory(UpdatedOf(Manifest[k]))) => UpdatedPhaseGrows
    /\ ~SetsHistory(localEdits.edited) => OverlayGrows

\* an update appended a new location to it_1's base history, which is kept
C7_Witness ==
    /\ pc = "deltas"
    /\ k = 2
    /\ ~SetsHistory(UpdatedOf(Manifest[1]))
    /\ \E i \in WithId(items, "it_1") :
          Hist(items[i]) = <<HistOpen("DO3M"), HistOpen("S")>>

\* ------------------------------------------------------------------ C8
ExactlyOneOpen(its) == \A i \in Records(its) : OpenCount(Hist(its[i])) = 1

\* the base records and the added records of the manifest satisfy the invariant
RecordsGiven ==
    /\ baseFile /= FAIL
    /\ ExactlyOneOpen(BaseItems)
    /\ \A p \in 1..Len(Manifest) : ExactlyOneOpen(AddedOf(Manifest[p]))

\* C8 as stated: in every state each record has exactly one open box_history
\* entry, given a base and added records that have.
C8_OneOpenEntry == RecordsGiven => ExactlyOneOpen(items)

\* the producer of an update that changes the history closes the old entry in
\* the same update: a set that rewrites box_history leaves, with the appended
\* entries, one open entry; an append without such a set adds no open entry
ProducerCloses(u) ==
    LET append == IF Has(u, "box_history_append") THEN u.box_history_append ELSE <<>>
    IN  IF "box_history" \in DOMAIN SetOf(u)
        THEN OpenCount(SetOf(u).box_history \o append) = 1
        ELSE OpenCount(append) = 0

\* C8 amended: the same, given in addition that every update of the manifest
\* closes the old entry itself; the engine does not close it.
C8_OneOpenIfProducerCloses ==
    (/\ RecordsGiven
     /\ \A p \in 1..Len(Manifest) : \A u \in Range(UpdatedOf(Manifest[p])) :
            u /= NULL => ProducerCloses(u))
    => ExactlyOneOpen(items)

\* a move that closed the old entry was merged into it_1
C8_Witness ==
    /\ RecordsGiven
    /\ pc = "done"
    /\ \A p \in 1..Len(Manifest) : \A u \in Range(UpdatedOf(Manifest[p])) :
            u /= NULL => ProducerCloses(u)
    /\ \E i \in WithId(items, "it_1") :
          Hist(items[i]) = <<HistClosed("DO3M"), HistOpen("S")>>

\* ------------------------------------------------------------------ C9
\* a list without its null entries
WithoutNull(s) == SelectSeq(s, LAMBDA e : e /= NULL)

Sanitized(d) ==
    MkDelta(WithoutNull(AddedOf(d)), WithoutNull(UpdatedOf(d)), RemovedOf(d))

\* C9: mergeDelta skips a malformed (null) entry of updated alone: the
\* collection it leaves is the one the delta without its malformed entries
\* leaves, later updates and the removed list included.
C9_EntryIsolation ==
    (AtDelta /\ NULL \notin Range(items) /\ NULL \notin Range(AddedOf(Manifest[k]))) =>
        MergeDelta(items, Manifest[k]).items
            = MergeDelta(items, Sanitized(Manifest[k])).items

\* ----------------------------------------------------------------- C10
\* C10: a delta that fails to fetch or parse changes nothing and the loop goes
\* on: at every position of the loop, and when it has ended, the collection
\* is the reconciliation of the base with the manifest entries passed so far
\* that loaded; the loop ends only past the last entry.
C10_FailedDeltaSkipped ==
    /\ (pc = "deltas" \/ AfterDeltas) =>
          items = ReconcileDeltas(BaseItems,
                                  SelectSeq(SubSeq(Manifest, 1, k - 1), Loaded))
    /\ AfterDeltas => k = Len(Manifest) + 1

\* the first delta failed to load and the second one was merged
C10_Witness ==
    /\ AfterDeltas
    /\ Len(Manifest) = 2
    /\ Manifest[1] = FAIL
    /\ Manifest[2] /= FAIL
    /\ items /= BaseItems

\* ------------------------------------------------- claims C11 to C20
\* showError has run in this page load
ErrorShown == dom.grid.content = "error"

\* C11: when the base snapshot is fetched and parsed, loadCatalogData never
\* reaches showError, whatever the manifest, the deltas and the stored
\* overlay value are (here: even with every delta well formed).
C11_OnlyBaseFailureShowsError ==
    (baseFile /= FAIL /\ CleanManifest) => ~ErrorShown

\* init() has run to its end (or to the statement that threw)
InitFinished == pc \in {"ready", "stopped"}

\* the error message is in the grid and the grid is not hidden
ErrorDisplayed == ErrorShown /\ dom.grid.display /= "none"

\* C12: if the base snapshot is missing or unparseable then, once init has
\* finished, the showError message is what is displayed, and no part of the
\* catalog UI (no-results panel, filter options) is built on top of it.
C12_ErrorIsWhatIsShown ==
    (baseFile = FAIL /\ InitFinished) =>
        /\ ErrorDisplayed
        /\ dom.noResults /= "block"
        /\ dom.boxFilter = {} /\ dom.categoryFilter = {} /\ dom.peopleFilter = {}

\* the distinct values present in a collection
BoxesOf(its) == {its[i].box_id : i \in Records(its)}

CategoriesOf(its) == {its[i].category : i \in Records(its)}

NamesOf(item) ==
    IF ~Has(item, "people") THEN {}
    ELSE IF Has(item.people, "array") THEN Range(item.people.array)
    ELSE {item.people.text} \ {""}

PeopleOf(its) == UNION {NamesOf(its[i]) : i \in Records(its)}

\* C13: once the catalog is loaded, allBoxes, allCategories and allPeople
\* equal the distinct box_id, category and people values present in items,
\* also after an addLocalEdit that changes one of those fields.
C13_VocabulariesFollowItems ==
    pc \in {"done", "ready"} =>
        /\ allBoxes = BoxesOf(items)
        /\ allCategories = CategoriesOf(items)
        /\ allPeople = PeopleOf(items)

\* positions of the overlay entries of an item
EntriesOf(overlay, id) == {i \in 1..Len(overlay.edited) : overlay.edited[i].id = id}

\* the overlay has at most one entry per item id
OneEntryPerItem(overlay) ==
    \A id \in Ids : Cardinality(EntriesOf(overlay, id)) <= 1

\* overlay `new` is overlay `old` with one field of one item's entry set: the
\* entry is the item's old one, or a new last one when it had none; its set
\* carries the field and has kept every other field with its value; the other
\* entries are as they were
MergedEdit(old, new, id, field) ==
    LET hits == EntriesOf(old, id)
        j == IF hits = {} THEN Len(old.edited) + 1 ELSE CHOOSE i \in hits : TRUE
        oldSet == IF hits = {} THEN <<>> ELSE old.edited[j].set
    IN  /\ Len(new.edited) = IF hits = {} THEN Len(old.edited) + 1 ELSE Len(old.edited)
        /\ \A i \in 1..Len(old.edited) : i /= j => new.edited[i] = old.edited[i]
        /\ new.edited[j].id = id
        /\ DOMAIN new.edited[j].set = DOMAIN oldSet \cup {field}
        /\ \A g \in DOMAIN oldSet \ {field} : new.edited[j].set[g] = oldSet[g]

\* the record items.find returns for the id carries the value the overlay
\* entry holds for the field
CarriesValue(its, overlay, id, field) ==
    \A i \in WithId(its, id) :
        (\A j \in WithId(its, id) : i <= j) =>
            \A e \in EntriesOf(overlay, id) : its[i][field] = overlay.edited[e].set[field]

\* a step of the running page that changes the overlay: an addLocalEdit call
EditStep == Listening /\ pc' = pc /\ localEdits' /= localEdits

\* C14: the overlay holds at most one entry per item id after any sequence of
\* addLocalEdit calls; an edit of an item that has an entry is merged into the
\* entry's set: the field edited takes the new value (the one the record now
\* carries) and the other fields of the set are kept.
C14_OneEntryPerItemMerged ==
    /\ [](HasEdited(localEdits) => OneEntryPerItem(localEdits))
    /\ [][EditStep =>
            \E id \in Ids, field \in EditFields :
                /\ MergedEdit(localEdits, localEdits', id, field)
                /\ CarriesValue(items', localEdits', id, field)]_vars

\* an entry that one page edit was merged into: it holds two fields
C14_Witness ==
    /\ pc = "ready"
    /\ attempts = 2
    /\ HasEdited(localEdits)
    /\ \E e \in Range(localEdits.edited) : Cardinality(DOMAIN e.set) = 2

\* C15: whenever addLocalEdit returns, the overlay stored under catalog_edits
\* equals the in-memory overlay.
C15_StoredEqualsMemory ==
    [][EditStep => storage' = Stringify(localEdits')]_vars

\* a page load begins: the constructor runs again
ReloadStep == pc \in {"ready", "stopped"} /\ pc' = "base"

\* C15 (amended): whenever addLocalEdit returns, the stored string is the
\* in-memory overlay stringified (setItem succeeded) or the string stored
\* before the call (setItem threw: the edit is in memory only); a reload
\* recovers the overlay that the stored string parses to.
C15_StoredEqualsMemoryOrStale ==
    /\ [][EditStep => storage' \in {Stringify(localEdits'), storage}]_vars
    /\ [][(ReloadStep /\ storage /= DENIED /\ storage /= NULL /\ ~ParseThrows(storage))
            => localEdits' = Parse(storage)]_vars

\* an edit that was made in memory and not stored: the stored overlay is the
\* one an earlier edit wrote
C15_Witness ==
    /\ pc = "ready"
    /\ attempts = 2
    /\ HasEdited(localEdits)
    /\ storage /= DENIED /\ storage /= NULL /\ ~ParseThrows(storage)
    /\ HasEdited(Parse(storage))
    /\ Len(Parse(storage).edited) = 1
    /\ Len(localEdits.edited) = 2
    /\ Parse(storage).timestamp = 1

\* no entry of the overlay maps a field to the empty string
NoEmptyValue(overlay) ==
    \A e \in Range(overlay.edited) : \A f \in DOMAIN e.set :
        e.set[f] /= FieldValue(f, "")

\* an inline edit was attempted (saveEdit ran, or Escape was pressed)
AttemptStep == attempts' /= attempts /\ controls' = controls

\* C16: a value that is empty after trimming is never recorded: no entry of
\* the overlay, in memory or stored, maps a field to the empty string, saveEdit
\* declines every such value whatever the field shows, and an attempt that
\* records nothing leaves overlay, storage and items unchanged.
C16_EmptyNeverRecorded ==
    /\ [](HasEdited(localEdits) => NoEmptyValue(localEdits))
    /\ [](LoadLocalEdits(storage) /= NULL /\ HasEdited(LoadLocalEdits(storage))
            => NoEmptyValue(LoadLocalEdits(storage)))
    /\ [](modal.open =>
            \A field \in EditFields, typed \in Typed :
                Trim(typed) = "" => ~Recorded(field, typed))
    /\ [][(AttemptStep /\ localEdits' = localEdits)
            => (storage' = storage /\ items' = items)]_vars

\* saveEdit has run once, for an input whose value trims to the empty
\* string, and the overlay is the stored one of the load
C16_Witness ==
    /\ pc = "ready"
    /\ attempts = 1
    /\ controls = NoControls
    /\ modal.open
    /\ modal.newValue = <<"">>
    /\ Len(items) = 2
    /\ \A i \in 1..Len(items) : items[i].item_name = "E"
    /\ HasEdited(localEdits)
    /\ Has(localEdits, "timestamp")
    /\ localEdits.timestamp = 0

\* the record is marked as edited
Edited(item) == Has(item, "_edited") /\ item._edited

\* C17: after reconciliation (of a base and well-formed deltas, under a usable
\* overlay) a record carries _edited == true exactly when the overlay has an
\* entry with the record's id.
C17_EditedIffOverlayEntry ==
    (pc = "done" /\ CleanManifest /\ HasEdited(localEdits)) =>
        \A i \in Records(items) :
            Edited(items[i]) <=> EntriesOf(localEdits, items[i].id) /= {}

\* the records marked as edited
MarkedEdited(its) == {i \in Records(its) : Edited(its[i])}

\* every id is the id of at most one record
NoDuplicateIds(its) == \A id \in Ids : Cardinality(WithId(its, id)) <= 1

\* C18: the edited-item count that updateStats shows (in edit mode, and here
\* for a collection without duplicate ids) equals the number of records
\* marked as edited, after load and after every addLocalEdit.
C18_CountIsMarkedRecords ==
    (pc = "ready" /\ editMode /\ NoDuplicateIds(items)) =>
        dom.editStatus = Cardinality(MarkedEdited(items))

\* the overlay entries whose id is the id of a record of the collection
PresentEntries(overlay, its) ==
    {e \in 1..Len(overlay.edited) : WithId(its, overlay.edited[e].id) /= {}}

\* C18 (amended): the count shown is the number of overlay entries (the edits
\* pending export), shown in edit mode only; the records marked as edited are
\* as many as the overlay entries whose id is in the collection.
C18_CountIsOverlayEntries ==
    (Listening /\ HasEdited(localEdits)) =>
        /\ dom.editStatus = IF editMode THEN Len(localEdits.edited) ELSE 0
        /\ Cardinality(MarkedEdited(items))
              = Cardinality(PresentEntries(localEdits, items))

\* the count shown is above the number of marked records: the overlay has an
\* entry for an item that a delta removed
C18_Witness ==
    /\ pc = "ready"
    /\ editMode
    /\ NoDuplicateIds(items)
    /\ dom.editStatus = 2
    /\ Cardinality(MarkedEdited(items)) = 1

\* C19: loadLocalEdits always returns a usable overlay: whatever the key
\* holds, the value it returns, which the constructor keeps as localEdits, has
\* an edited list.
C19_AlwaysUsableOverlay ==
    HasEdited(LoadLocalEdits(storage)) /\ HasEdited(localEdits)

\* C20: for a valid base B, an empty delta list and an empty overlay, the
\* reconciled collection is B.items: the same records, in the same order, with
\* the same values.
C20_BaseAloneIsIdentity ==
    (/\ pc \in {"done", "ready"}
     /\ baseFile /= FAIL /\ Has(baseFile, "items")
     /\ Manifest = <<>>
     /\ HasEdited(localEdits) /\ localEdits.edited = <<>>)
        => items = baseFile.items

\* a base of two records reconciled with no delta and no edit
C20_Witness ==
    /\ pc = "done"
    /\ baseFile /= FAIL /\ Has(baseFile, "items")
    /\ Len(baseFile.items) = 2
    /\ Manifest = <<>>
    /\ HasEdited(localEdits) /\ localEdits.edited = <<>>
    /\ Len(items) = 2

\* ------------------------------------------------- claims C21 to C25
\* loadCatalogData returned without showing the error
Successful == pc \in {"done", "ready"}

\* C21: after a successful load, lastUpdated is the manifest's last_updated
\* whenever the manifest was fetched and parsed ('N/A' if it has none), and the
\* base's catalog_version ('N/A' if it has none) when no manifest is available;
\* it is the base's version only then, whether or not the deltas loaded.
C21_LastUpdatedFromManifest ==
    Successful =>
        /\ indexFile /= FAIL =>
              lastUpdated = IF Has(indexFile, "last_updated")
                            THEN indexFile.last_updated ELSE "N/A"
        /\ indexFile = FAIL =>
              lastUpdated = IF Has(baseFile, "catalog_version")
                            THEN baseFile.catalog_version ELSE "N/A"
        /\ (Has(baseFile, "catalog_version") /\ lastUpdated = baseFile.catalog_version)
              => indexFile = FAIL

\* a successful load whose manifest lists a delta that could not be loaded
\* and one that was merged
C21_Witness ==
    /\ Successful
    /\ FAIL \in Range(Manifest)
    /\ \E d \in Range(Manifest) : d /= FAIL
    /\ lastUpdated = "2025-02-01"

\* renderItems has run in this page load
Rendered == dom.noResults /= "css"

\* applyLocalEdits has marked a record
OverlayApplied == \E i \in Records(items) : Edited(items[i])

\* C22: delta fetches are strictly sequential in manifest order: at most the
\* fetch of the loop's position k is outstanding, the fetch of a position is
\* issued only when every delta before it has been merged or skipped, and the
\* overlay is applied and the view rendered only after the last delta is done.
C22_SequentialFetches ==
    /\ [](issued \in {k - 1, k} /\ issued <= Len(Manifest))
    /\ [][issued' = issued + 1 =>
            /\ issued' = k
            /\ items = ReconcileDeltas(BaseItems,
                                       SelectSeq(SubSeq(Manifest, 1, issued), Loaded))]_vars
    /\ []((pc \in {"overlay", "done", "ready"} /\ indexFile /= FAIL)
            => (issued = Len(Manifest) /\ k = Len(Manifest) + 1))
    /\ [](OverlayApplied => pc \in {"done", "failed", "ready", "stopped"})
    /\ [](Rendered => pc \in {"ready", "stopped"})

\* the fetch of the second delta is outstanding and the first delta is merged
C22_Witness ==
    /\ pc = "deltas"
    /\ issued = 2
    /\ k = 2
    /\ Manifest[1] /= FAIL
    /\ items = MergeDelta(BaseItems, Manifest[1]).items
    /\ items /= BaseItems

\* filteredItems refers to every record of items, once each
ShowsAll == Len(filteredItems) = Len(items) /\ Range(filteredItems) = 1..Len(items)

\* no search term and no filter is active
NoFilter(c) == c.search = "" /\ c.box = "" /\ c.category = "" /\ c.people = ""

\* C23: when init has finished after a successful load (the URL has no
\* parameter), and whenever no search term and no filter is active,
\* filteredItems holds every record of items.
C23_WholeCatalogShown ==
    (pc = "ready" /\ NoFilter(controls)) => ShowsAll

\* the collection that a fresh reconciliation of the base, the manifest and
\* its deltas produces under an overlay
Replay(overlay) ==
    Overlaid(ReconcileDeltas(BaseItems, SelectSeq(Manifest, Loaded)), overlay).items

\* C24: after a load followed by any sequence of addLocalEdit calls, the
\* in-memory collection equals the collection a fresh reconciliation of the
\* same base, manifest and deltas produces with the overlay stored at that
\* moment.
C24_AgreesWithStoredReplay ==
    pc = "ready" => items = Replay(LoadLocalEdits(storage))

\* C24 (amended): after a load followed by any sequence of addLocalEdit
\* calls, the in-memory collection (field values and _edited marks) equals
\* the collection a fresh reconciliation produces with the in-memory overlay,
\* which is the stored one whenever the stored string is the overlay
\* stringified.
C24_AgreesWithReplay ==
    pc = "ready" =>
        /\ items = Replay(localEdits)
        /\ storage = Stringify(localEdits) => items = Replay(LoadLocalEdits(storage))

\* two edits were made in this run and the collection differs from the one
\* reconciled without them
C24_Witness ==
    /\ pc = "ready"
    /\ attempts = 2
    /\ HasEdited(localEdits)
    /\ Has(localEdits, "timestamp")
    /\ localEdits.timestamp = 2
    /\ \E e \in Range(localEdits.edited) : Cardinality(DOMAIN e.set) = 2
    /\ items /= Replay(DefaultEdits)

\* C25: cancelling an inline edit records nothing: once Escape is pressed no
\* event of that editing session calls addLocalEdit, so after any step that
\* the Escape key can take the overlay, the stored string and the records are
\* the same as before the click.
C25_EscapeRecordsNothing ==
    [][EscapeEdit => UNCHANGED <<localEdits, storage, items>>]_vars

====
